---------------------------- MODULE Spec2Model ----------------------------
(***************************************************************************)
(* A model of the front end of scheme-oxide: the symbol identities, the    *)
(* syntax tree and its reification of src/src/ast.rs (with the list        *)
(* factory of src/src/types.rs) and the scanner of                         *)
(* src/src/parser/tokenizer.rs.                                            *)
(*                                                                         *)
(* The specifications share the module, one per component:                 *)
(*   SpecSym      threads creating symbols (gen_temp, new,                 *)
(*                From<CoreSymbol>)                                        *)
(*   SpecAst      a parser driving AstListBuilder, the AstNode downcasts   *)
(*                and to_datum                                             *)
(*   SpecTok      a caller driving the Tokenizer iterator over a bounded   *)
(*                text                                                     *)
(*   SpecTokLive  the same caller and iterator under weak fairness         *)
(* Each leaves the variables of the other components at their initial      *)
(* values.                                                                 *)
(***************************************************************************)
EXTENDS Integers, Sequences, FiniteSets, TLC

VARIABLES
    TEMP_COUNT,       \* ast.rs:81   static TEMP_COUNT: AtomicU64
    pc,               \* per thread: position inside gen_temp
    count,            \* per thread: the local `count` of gen_temp (ast.rs:83)
    syms,             \* per thread: the symbols the thread was handed, in order
    nodes,            \* ast.rs:189  AstListBuilder.nodes of the live builder
    held,             \* the AstNode the parser holds (last list built), or NoNode
    result,           \* the parser's last operation and what it returned
    text,             \* the text Tokenizer::new was given
    input,            \* tokenizer.rs:125  Tokenizer.input, the remaining text
    tpc,              \* position inside Iterator::next
    unchecked_token,  \* tokenizer.rs:204  local of Iterator::next
    yielded           \* the items next() has returned so far, in order

symVars == <<TEMP_COUNT, pc, count, syms>>
astVars == <<nodes, held, result>>
tokVars == <<text, input, tpc, unchecked_token, yielded>>
vars == <<TEMP_COUNT, pc, count, syms, nodes, held, result,
          text, input, tpc, unchecked_token, yielded>>

(***************************************************************************)
(* Bounds of the model.                                                    *)
(***************************************************************************)
NumThreads == 2
MaxSyms == 4
MaxSize == 5
MaxLen == 3
MaxStalls == 2

Threads == 1..NumThreads

(***************************************************************************)
(* Symbols (ast.rs:28-101).                                                *)
(***************************************************************************)
\* ast.rs:29-43  enum CoreSymbol
CoreSymbol ==
    {"And", "Begin", "Or", "Let", "LetRec", "LetStar", "Lambda", "If", "Set",
     "Error", "Quote", "BeginProgram", "GenUnspecified"}

\* ast.rs:46-62  CoreSymbol::get_name
CoreGetName(core) ==
    CASE core = "And" -> "and"
      [] core = "Begin" -> "begin"
      [] core = "Or" -> "or"
      [] core = "Let" -> "let"
      [] core = "LetRec" -> "letrec"
      [] core = "LetStar" -> "let*"
      [] core = "Lambda" -> "lambda"
      [] core = "If" -> "if"
      [] core = "Set" -> "set"
      [] core = "Error" -> "error"
      [] core = "Quote" -> "quote"
      [] core = "BeginProgram" -> "$begin-program"
      [] core = "GenUnspecified" -> "$gen_unspecified"

\* ast.rs:66-70  enum AstSymbolInner: the three origins and their payloads
SymCore(core) == [origin |-> "Core", core |-> core]
SymTemp(id) == [origin |-> "Temp", id |-> id]
SymDefined(name) == [origin |-> "Defined", name |-> name]

\* ast.rs:76-78  AstSymbol::new
AstSymbolNew(name) == SymDefined(name)

\* ast.rs:97-101  From<CoreSymbol> for AstSymbol
AstSymbolFromCore(core) == SymCore(core)

\* format!("{}", id) of a u64: its decimal digits
DecDigit(d) == SubSeq("0123456789", d + 1, d + 1)

RECURSIVE FormatU64(_)
FormatU64(n) ==
    IF n < 10 THEN DecDigit(n) ELSE FormatU64(n \div 10) \o DecDigit(n % 10)

\* ast.rs:88-94  AstSymbol::get_name
SymGetName(sym) ==
    CASE sym.origin = "Core" -> CoreGetName(sym.core)
      [] sym.origin = "Temp" -> "$temp$id" \o FormatU64(sym.id)
      [] sym.origin = "Defined" -> sym.name

\* A comparison by printed name instead of by (origin, payload).
SymEqByName(a, b) == SymGetName(a) = SymGetName(b)

\* ast.rs:65,72  #[derive(PartialEq, Eq, Hash)] on AstSymbolInner / AstSymbol:
\* equal discriminants, then equal payloads.
SymEq(a, b) ==
    /\ a.origin = b.origin
    /\ CASE a.origin = "Core" -> a.core = b.core
         [] a.origin = "Temp" -> a.id = b.id
         [] a.origin = "Defined" -> a.name = b.name

\* A plain load: the counter is read and never advanced.
LoadOnly(cur, val) == [prev |-> cur, next |-> cur]

\* ast.rs:83  AtomicU64::fetch_add(val, Relaxed): one indivisible
\* read-modify-write; returns the previous value.  The addition wraps at 2^64,
\* which MaxSyms calls cannot reach.
FetchAdd(cur, val) == [prev |-> cur, next |-> cur + val]

\* Spellings handed to AstSymbol::new and cases handed to From<CoreSymbol>.
SymNames == {"$temp$id0", "if"}
CoreInputs == {"If"}

NumSyms == LET RECURSIVE Sum(_)
               Sum(t) == IF t = 0 THEN 0 ELSE Len(syms[t]) + Sum(t - 1)
           IN Sum(NumThreads)
InFlight == Cardinality({t \in Threads : pc[t] = "fetched"})

SymInit ==
    /\ TEMP_COUNT = 0
    /\ pc = [t \in Threads |-> "idle"]
    /\ count = [t \in Threads |-> 0]
    /\ syms = [t \in Threads |-> <<>>]

\* ast.rs:83  let count = TEMP_COUNT.fetch_add(1, Ordering::Relaxed);
GenTempFetch(t) ==
    /\ pc[t] = "idle"
    /\ NumSyms + InFlight < MaxSyms
    /\ LET r == FetchAdd(TEMP_COUNT, 1)
       IN /\ count' = [count EXCEPT ![t] = r.prev]
          /\ TEMP_COUNT' = r.next
    /\ pc' = [pc EXCEPT ![t] = "fetched"]
    /\ UNCHANGED <<syms, astVars, tokVars>>

\* ast.rs:85  AstSymbol(AstSymbolInner::Temp(count))
GenTempReturn(t) ==
    /\ pc[t] = "fetched"
    /\ syms' = [syms EXCEPT ![t] = Append(@, SymTemp(count[t]))]
    /\ pc' = [pc EXCEPT ![t] = "idle"]
    /\ UNCHANGED <<TEMP_COUNT, count, astVars, tokVars>>

\* ast.rs:76-78
CallSymbolNew(t, name) ==
    /\ pc[t] = "idle"
    /\ NumSyms + InFlight < MaxSyms
    /\ syms' = [syms EXCEPT ![t] = Append(@, AstSymbolNew(name))]
    /\ UNCHANGED <<TEMP_COUNT, pc, count, astVars, tokVars>>

\* ast.rs:97-101
CallSymbolFromCore(t, core) ==
    /\ pc[t] = "idle"
    /\ NumSyms + InFlight < MaxSyms
    /\ syms' = [syms EXCEPT ![t] = Append(@, AstSymbolFromCore(core))]
    /\ UNCHANGED <<TEMP_COUNT, pc, count, astVars, tokVars>>


(***************************************************************************)
(* Syntax tree (ast.rs:103-379).                                           *)
(***************************************************************************)
\* ast.rs:230-235  enum AstNodeNonList
Number(x) == [kind |-> "Number", number |-> x]
Symbol(sym) == [kind |-> "Symbol", symbol |-> sym]
SchemeString(s) == [kind |-> "String", string |-> s]
Bool(b) == [kind |-> "Bool", bool |-> b]

\* ast.rs:104-107  enum ListType
Proper == [kind |-> "Proper"]
Improper(non_list) == [kind |-> "Improper", tail |-> non_list]

\* ast.rs:238-244  enum AstNodeInner, struct AstNode
NonList(non_list) == [inner |-> "NonList", non_list |-> non_list]
List(list) == [inner |-> "List", list |-> list]

\* ast.rs:138-141  struct AstList
AstList(ns, list_type) == [nodes |-> ns, list_type |-> list_type]

\* ast.rs:247-261  AstNode::from_non_list and the leaf constructors
FromNonList(non_list) == NonList(non_list)
FromNumber(number) == FromNonList(Number(number))
FromString(string) == FromNonList(SchemeString(string))
FromBool(boolean) == FromNonList(Bool(boolean))

\* ast.rs:361-365  From<AstSymbol> for AstNode
FromSymbol(sym) == FromNonList(Symbol(sym))

\* ast.rs:367-371  From<AstList> for AstNode
FromList(list) == List(list)

\* ast.rs:114-120  ListType::is_improper_list
TypeIsImproperList(list_type) == list_type.kind = "Improper"

\* ast.rs:110-112  ListType::is_proper_list
TypeIsProperList(list_type) == ~TypeIsImproperList(list_type)

\* ast.rs:122-127  ListType::into_node
TypeIntoNode(list_type) ==
    IF list_type.kind = "Proper"
    THEN List(AstList(<<>>, Proper))
    ELSE NonList(list_type.tail)

\* ast.rs:144-149  AstList::none
AstListNone == AstList(<<>>, Proper)

\* ast.rs:151-156  AstList::one
AstListOne(node) == AstList(<<node>>, Proper)

\* ast.rs:179-186  From<Vec<AstNode>> for AstList
AstListFrom(list) == AstList(list, Proper)

\* ast.rs:158-160, 166-168
IsProperList(list) == TypeIsProperList(list.list_type)
IsImproperList(list) == TypeIsImproperList(list.list_type)

\* ast.rs:174-176  AstList::into_inner
IntoInner(list) == <<list.nodes, TypeIntoNode(list.list_type)>>

\* ast.rs:329-335  AstNode::is_improper_list
NodeIsImproperList(node) ==
    IF node.inner = "List" THEN IsImproperList(node.list) ELSE FALSE

\* Option and Result values
None == [some |-> FALSE]
Some(v) == [some |-> TRUE, value |-> v]
Ok(v) == [ok |-> TRUE, value |-> v]
Err(e) == [ok |-> FALSE, error |-> e]

\* ast.rs:201-207  AstListBuilder::build_with_type
BuildWithType(ns, list_type) == AstList(ns, list_type)

\* ast.rs:209-211  AstListBuilder::build
Build(ns) == BuildWithType(ns, Proper)

\* A cons-style finalize: the supplied node becomes the tail as it is.
BuildWithTailNoSplice(ns, node) ==
    IF node.inner = "List" /\ ns = <<>> /\ IsImproperList(node.list)
    THEN None
    ELSE Some(BuildWithType(ns, Improper(IF node.inner = "List" THEN node
                                         ELSE node.non_list)))

\* A finalize that rejects every improper tail, whatever the builder holds.
BuildWithTailStrict(ns, node) ==
    IF node.inner = "List"
    THEN IF IsImproperList(node.list)
         THEN None
         ELSE Some(BuildWithType(ns \o node.list.nodes, node.list.list_type))
    ELSE Some(BuildWithType(ns, Improper(node.non_list)))

\* A finalize that splices the tail's children in front of the builder's.
BuildWithTailPrepend(ns, node) ==
    IF node.inner = "List"
    THEN IF ns = <<>> /\ IsImproperList(node.list)
         THEN None
         ELSE Some(BuildWithType(node.list.nodes \o ns, node.list.list_type))
    ELSE Some(BuildWithType(ns, Improper(node.non_list)))

\* ast.rs:213-226  AstListBuilder::build_with_tail
BuildWithTail(ns, node) ==
    IF node.inner = "List"
    THEN IF ns = <<>> /\ IsImproperList(node.list)
         THEN None
         ELSE Some(BuildWithType(ns \o node.list.nodes, node.list.list_type))
    ELSE Some(BuildWithType(ns, Improper(node.non_list)))

\* ast.rs:303-309  AstNode::into_symbol
IntoSymbol(node) ==
    IF node.inner = "NonList" /\ node.non_list.kind = "Symbol"
    THEN Ok(node.non_list.symbol)
    ELSE Err(node)

\* ast.rs:311-317  AstNode::into_list
IntoList(node) ==
    IF node.inner = "List" THEN Ok(node.list) ELSE Err(node)

\* A downcast that rebuilds the rejected node from its children alone.
IntoProperListDropTail(node) ==
    LET r == IntoList(node)
    IN IF ~r.ok THEN r
       ELSE IF ~IsProperList(r.value)
            THEN Err(List(AstListFrom(IntoInner(r.value)[1])))
            ELSE Ok(IntoInner(r.value)[1])

\* ast.rs:319-327  AstNode::into_proper_list
IntoProperList(node) ==
    LET r == IntoList(node)
    IN IF ~r.ok THEN r
       ELSE IF ~IsProperList(r.value)
            THEN Err(List(r.value))
            ELSE Ok(IntoInner(r.value)[1])


\* The parser holds no node.
NoNode == [inner |-> "NoNode"]

\* Leaves the parser makes from tokens.
LeafInputs == {FromNumber(1), FromSymbol(AstSymbolNew("a")), FromString("s")}

\* Number of leaves, lists and tails in a node: the measure the model bounds.
RECURSIVE NodeSize(_)
NodeSize(node) ==
    IF node.inner = "NoNode" THEN 0
    ELSE IF node.inner = "NonList" THEN 1
    ELSE LET ns == node.list.nodes
             RECURSIVE Sum(_)
             Sum(i) == IF i = 0 THEN 0 ELSE NodeSize(ns[i]) + Sum(i - 1)
         IN 1 + Sum(Len(ns))
              + (IF node.list.list_type.kind = "Improper" THEN 1 ELSE 0)

BuilderSize == NodeSize(List(AstList(nodes, Proper))) - 1

Record(op, node, ret) == [op |-> op, builder |-> nodes, arg |-> node, ret |-> ret]

AstInit ==
    /\ nodes = <<>>          \* ast.rs:193-195  AstListBuilder::new
    /\ held = NoNode
    /\ result = [op |-> "new"]

\* ast.rs:251-261, 361-365  the parser makes a leaf node from a token
MakeLeaf(leaf) ==
    /\ BuilderSize < MaxSize
    /\ held = NoNode
    /\ held' = leaf
    /\ result' = [op |-> "leaf"]
    /\ UNCHANGED <<nodes, symVars, tokVars>>

\* ast.rs:197-199  AstListBuilder::push of a leaf made on the spot
PushLeaf(leaf) ==
    /\ BuilderSize + NodeSize(held) < MaxSize
    /\ nodes' = Append(nodes, leaf)
    /\ result' = [op |-> "push"]
    /\ UNCHANGED <<held, symVars, tokVars>>

\* ast.rs:197-199  AstListBuilder::push of the held node, which is moved
Push ==
    /\ held # NoNode
    /\ nodes' = Append(nodes, held)
    /\ held' = NoNode
    /\ result' = [op |-> "push"]
    /\ UNCHANGED <<symVars, tokVars>>

\* ast.rs:209-211  build consumes the builder; the parser starts a new one
CallBuild ==
    /\ BuilderSize < MaxSize
    /\ held' = FromList(Build(nodes))
    /\ nodes' = <<>>
    /\ result' = Record("build", NoNode, Some(Build(nodes)))
    /\ UNCHANGED <<symVars, tokVars>>

\* ast.rs:213-226  build_with_tail consumes the builder and the node; the
\* parser keeps the list it gets back, if any, and starts a new builder
CallBuildWithTail ==
    /\ held # NoNode
    /\ LET ret == BuildWithTail(nodes, held)
       IN /\ result' = Record("build_with_tail", held, ret)
          /\ held' = IF ret.some THEN FromList(ret.value) ELSE NoNode
    /\ nodes' = <<>>
    /\ UNCHANGED <<symVars, tokVars>>

\* ast.rs:144-149
CallListNone ==
    /\ BuilderSize < MaxSize
    /\ held' = FromList(AstListNone)
    /\ result' = [op |-> "none"]
    /\ UNCHANGED <<nodes, symVars, tokVars>>

\* ast.rs:151-156
CallListOne ==
    /\ held # NoNode
    /\ BuilderSize + NodeSize(held) < MaxSize
    /\ held' = FromList(AstListOne(held))
    /\ result' = [op |-> "one"]
    /\ UNCHANGED <<nodes, symVars, tokVars>>

\* ast.rs:373-378  From<Vec<AstNode>> for AstNode
CallListFrom(list) ==
    /\ BuilderSize + Len(list) < MaxSize
    /\ held' = FromList(AstListFrom(list))
    /\ result' = [op |-> "from"]
    /\ UNCHANGED <<nodes, symVars, tokVars>>

\* What the parser holds after a consuming downcast: a rejected node comes
\* back as the error payload, an accepted one is taken apart.
AfterDowncast(ret) == IF ret.ok THEN NoNode ELSE ret.error

\* ast.rs:303-309
CallIntoSymbol ==
    /\ held # NoNode
    /\ LET ret == IntoSymbol(held)
       IN /\ result' = Record("into_symbol", held, ret)
          /\ held' = AfterDowncast(ret)
    /\ UNCHANGED <<nodes, symVars, tokVars>>

\* ast.rs:311-317
CallIntoList ==
    /\ held # NoNode
    /\ LET ret == IntoList(held)
       IN /\ result' = Record("into_list", held, ret)
          /\ held' = AfterDowncast(ret)
    /\ UNCHANGED <<nodes, symVars, tokVars>>

\* ast.rs:319-327
CallIntoProperList ==
    /\ held # NoNode
    /\ LET ret == IntoProperList(held)
       IN /\ result' = Record("into_proper_list", held, ret)
          /\ held' = AfterDowncast(ret)
    /\ UNCHANGED <<nodes, symVars, tokVars>>

(***************************************************************************)
(* Reification of a node as a datum (ast.rs:129-134, 263-279 and           *)
(* types.rs:33-94).  The runtime behind ListFactory (the pair objects, the *)
(* singletons and the two closures of make_list_factory) lies outside      *)
(* these files; it is modelled as section 4.2 of the specification         *)
(* describes the pair encoding.                                            *)
(***************************************************************************)
\* types.rs:88-94  SchemeType::Number, SchemeType::String
SchemeTypeNumber(x) == [datum |-> "Number", num |-> x]
SchemeTypeString(s) == [datum |-> "String", chars |-> s]

\* environment::empty_list(): the runtime's empty-list sentinel
EmptyList == [datum |-> "Object", object |-> "empty_list"]

\* environment::s_true(), environment::s_false()
STrue == [datum |-> "Object", object |-> "true"]
SFalse == [datum |-> "Object", object |-> "false"]

\* types.rs:179-187  From<bool> for SchemeType
SchemeTypeFromBool(is_true) == IF is_true THEN STrue ELSE SFalse

\* The runtime's immutable pair of two values.
Cons(a, d) == [datum |-> "Object", object |-> "pair", car |-> a, cdr |-> d]

\* types.rs:33-51  new_symbol: the object NAME_TO_SYM_MAP holds under the
\* name, made by the first call with that name; one object per name.
NewSymbol(name) ==
    [datum |-> "Object", object |-> "symbol",
     fields |-> <<SchemeTypeString(name)>>]

\* The first closure of make_list_factory: one more object at the end.
PushFn(pushed, object) == Append(pushed, object)

\* The second closure of make_list_factory: the pairs of the objects pushed,
\* first pushed outermost, ending in the object given.
RECURSIVE ResFn(_, _)
ResFn(pushed, object) ==
    IF pushed = <<>> THEN object
    ELSE Cons(Head(pushed), ResFn(Tail(pushed), object))

\* types.rs:60-72  ListFactory::new
ListFactoryNew(mutable) == [mutable |-> mutable, pushed |-> <<>>]

\* types.rs:74-76  ListFactory::push
ListFactoryPush(self, object) ==
    [self EXCEPT !.pushed = PushFn(self.pushed, object)]

\* types.rs:82-84  ListFactory::build_with_tail
ListFactoryBuildWithTail(self, object) == ResFn(self.pushed, object)

RECURSIVE ToDatum(_)

\* A list type that reifies as the empty list whatever its tail.
ListTypeToDatumEmpty(list_type) == EmptyList

\* ast.rs:129-134  ListType::to_datum
ListTypeToDatum(list_type) ==
    IF list_type.kind = "Proper" THEN EmptyList
    ELSE ToDatum(FromNonList(list_type.tail))

\* ast.rs:271-273  for node in list.nodes.iter() { builder.push(..) }
RECURSIVE PushAll(_, _, _)
PushAll(builder, ns, k) ==
    IF k > Len(ns) THEN builder
    ELSE PushAll(ListFactoryPush(builder, ToDatum(ns[k])), ns, k + 1)

\* ast.rs:263-279  AstNode::to_datum
ToDatum(node) ==
    IF node.inner = "List"
    THEN ListFactoryBuildWithTail(
             PushAll(ListFactoryNew(FALSE), node.list.nodes, 1),
             ListTypeToDatum(node.list.list_type))
    ELSE CASE node.non_list.kind = "Number" ->
                  SchemeTypeNumber(node.non_list.number)
           [] node.non_list.kind = "Symbol" ->
                  NewSymbol(SymGetName(node.non_list.symbol))
           [] node.non_list.kind = "String" ->
                  SchemeTypeString(node.non_list.string)
           [] node.non_list.kind = "Bool" ->
                  SchemeTypeFromBool(node.non_list.bool)

\* ast.rs:263  to_datum(&self) of the node the parser holds
CallToDatum ==
    /\ held # NoNode
    /\ result' = Record("to_datum", held, ToDatum(held))
    /\ UNCHANGED <<nodes, held, symVars, tokVars>>

(***************************************************************************)
(* Scanner (tokenizer.rs).  A text is a sequence of one-character strings. *)
(* A pattern of gen_regex is an operator P(s, i) giving, for a match        *)
(* attempted after the first i characters of s, the offsets at which the   *)
(* match can end, in the order a leftmost-first (backtracking) matcher     *)
(* tries them: greedy repetitions longest first, alternatives left to      *)
(* right.  The match the regex reports is the first entry.                 *)
(***************************************************************************)
\* The characters of a string literal, as a set.
Chars(str) == {SubSeq(str, k, k) : k \in 1..Len(str)}

\* The character after offset i, or "" at the end of the text.
Ch(s, i) == IF i < Len(s) THEN s[i + 1] ELSE ""

\* hi, hi-1, .., lo: the ends a greedy repetition offers, longest first.
Down(hi, lo) == [k \in 1..(hi - lo + 1) |-> hi - k + 1]

RECURSIVE Flatten(_)
Flatten(ss) == IF ss = <<>> THEN <<>> ELSE Head(ss) \o Flatten(Tail(ss))

\* The end of the longest run of characters of class `cls` after offset i.
RECURSIVE RunEnd(_, _, _)
RunEnd(s, i, cls) == IF Ch(s, i) \in cls THEN RunEnd(s, i + 1, cls) ELSE i

\* tokenizer.rs:48  [[:space:]]  (the vertical tab is left out: it has no
\* spelling in a string of the model)
Space == {" ", "\t", "\n", "\r", "\f"}
\* tokenizer.rs:54  [[:alpha:]]
Alpha == Chars("abcdefghijklmnopqrstuvwxyzABCDEFGHIJKLMNOPQRSTUVWXYZ")
\* tokenizer.rs:55, 65  [0-9]
Digit == Chars("0123456789")
\* tokenizer.rs:52  special_initial
SpecialInitial == Chars("!$%&*/:<=>?^_~")
\* tokenizer.rs:53  special_subsequent
SpecialSubsequent == Chars("+.@-")
\* tokenizer.rs:54  initial
Initial == Alpha \cup SpecialInitial
\* tokenizer.rs:55  subsequent
Subsequent == Digit \cup Initial \cup SpecialSubsequent

\* Characters the model spells; `.` of the regex is any of them but "\n".
AllChars ==
    Space \cup Subsequent \cup Chars("()';#,") \cup {"\"", "\\"}
AnyButNewline == AllChars \ {"\n"}

\* A comment pattern that matches the semicolon alone.
CommentBare(s, i) == IF Ch(s, i) = ";" THEN <<i + 1>> ELSE <<>>

\* tokenizer.rs:47  comment = (?:;.*)
Comment(s, i) ==
    IF Ch(s, i) = ";" THEN Down(RunEnd(s, i + 1, AnyButNewline), i + 1)
    ELSE <<>>

\* tokenizer.rs:48  whitespace = (?:[[:space:]]|comment)
Whitespace(s, i) ==
    (IF Ch(s, i) \in Space THEN <<i + 1>> ELSE <<>>) \o Comment(s, i)

\* tokenizer.rs:50  delmer = (?:whitespace|[()";]|$)
Delmer(s, i) ==
    Whitespace(s, i)
        \o (IF Ch(s, i) \in {"(", ")", "\"", ";"} THEN <<i + 1>> ELSE <<>>)
        \o (IF i = Len(s) THEN <<i>> ELSE <<>>)

\* tokenizer.rs:56  normal_symbol = (?:initial subsequent*)
NormalSymbol(s, i) ==
    IF Ch(s, i) \in Initial THEN Down(RunEnd(s, i + 1, Subsequent), i + 1)
    ELSE <<>>

\* tokenizer.rs:58  odd_symbol = (?:[+-]|\.{3})
OddSymbol(s, i) ==
    (IF Ch(s, i) \in {"+", "-"} THEN <<i + 1>> ELSE <<>>)
        \o (IF Ch(s, i) = "." /\ Ch(s, i + 1) = "." /\ Ch(s, i + 2) = "."
            THEN <<i + 3>> ELSE <<>>)

\* A match of one alternative: where the whole match ends and the span of
\* the alternative's named group.
Match(name, from, to, end) ==
    [group |-> name, start |-> from, end |-> to, whole |-> end]

\* The matches of `group delmer`: each end of the group, in order, followed
\* by each end of the delimiter.
ThenDelmer(name, s, i, ends) ==
    Flatten([k \in 1..Len(ends) |->
               LET d == Delmer(s, ends[k])
               IN [j \in 1..Len(d) |-> Match(name, i, ends[k], d[j])]])

\* tokenizer.rs:59  symbol = (?:(?P<symbol>normal_symbol|odd_symbol) delmer)
SymbolAlt(s, i) ==
    ThenDelmer("symbol", s, i, NormalSymbol(s, i) \o OddSymbol(s, i))

\* A number pattern without the optional sign.
NumberBodyUnsigned(s, i) ==
    IF Ch(s, i) \in Digit THEN Down(RunEnd(s, i + 1, Digit), i + 1)
    ELSE <<>>

\* tokenizer.rs:65  (?:\+|-)?[0-9]+ : the sign is tried first, then its absence
NumberBody(s, i) ==
    LET digits(j) ==
            IF Ch(s, j) \in Digit THEN Down(RunEnd(s, j + 1, Digit), j + 1)
            ELSE <<>>
    IN (IF Ch(s, i) \in {"+", "-"} THEN digits(i + 1) ELSE <<>>) \o digits(i)

\* tokenizer.rs:65  number = (?:(?P<number>(?:\+|-)?[0-9]+) delmer)
NumberAlt(s, i) == ThenDelmer("number", s, i, NumberBody(s, i))

\* A string body without escape pairs.
RECURSIVE StringBodyNoEscape(_, _)
StringBodyNoEscape(s, i) ==
    (IF Ch(s, i) \in AllChars \ {"\"", "\\", "\n"}
     THEN StringBodyNoEscape(s, i + 1) ELSE <<>>)
        \o <<i>>

\* tokenizer.rs:61  string_body = (?:[^"\\\n]|\\.)* : greedy, one more
\* character or escape pair before stopping
RECURSIVE StringBody(_, _)
StringBody(s, i) ==
    (IF Ch(s, i) \in AllChars \ {"\"", "\\", "\n"}
     THEN StringBody(s, i + 1) ELSE <<>>)
        \o (IF Ch(s, i) = "\\" /\ Ch(s, i + 1) \in AnyButNewline
            THEN StringBody(s, i + 2) ELSE <<>>)
        \o <<i>>

\* tokenizer.rs:62  good_string = (?:"string_body")
GoodString(s, i) ==
    IF Ch(s, i) # "\"" THEN <<>>
    ELSE LET b == StringBody(s, i + 1)
         IN Flatten([k \in 1..Len(b) |->
                       IF Ch(s, b[k]) = "\""
                       THEN <<Match("goodStringBody", i + 1, b[k], b[k] + 1)>>
                       ELSE <<>>])

\* An unterminated string pattern without the optional trailing backslash.
BadEofStringNoSlash(s, i) ==
    IF Ch(s, i) # "\"" THEN <<>>
    ELSE LET b == StringBody(s, i + 1)
         IN Flatten([k \in 1..Len(b) |->
                       IF b[k] = Len(s)
                       THEN <<Match("badEofStringBody", i + 1, b[k], Len(s))>>
                       ELSE <<>>])

\* tokenizer.rs:63  bad_eof_string = (?:"string_body\\?$)
BadEofString(s, i) ==
    IF Ch(s, i) # "\"" THEN <<>>
    ELSE LET b == StringBody(s, i + 1)
             opt(j) == (IF Ch(s, j) = "\\" THEN <<j + 1>> ELSE <<>>) \o <<j>>
         IN Flatten([k \in 1..Len(b) |->
                       Flatten([m \in 1..Len(opt(b[k])) |->
                                  IF opt(b[k])[m] = Len(s)
                                  THEN <<Match("badEofStringBody", i + 1, b[k],
                                               Len(s))>>
                                  ELSE <<>>])])

\* tokenizer.rs:67  block = (?P<block>\(|\))
BlockAlt(s, i) ==
    IF Ch(s, i) \in {"(", ")"} THEN <<Match("block", i, i + 1, i + 1)>>
    ELSE <<>>

\* A boolean pattern that does not look for the delimiter after #t or #f.
BooleanAltNoDelmer(s, i) ==
    IF Ch(s, i) = "#" /\ Ch(s, i + 1) \in {"t", "f"}
    THEN <<Match("boolean", i, i + 2, i + 2)>> ELSE <<>>

\* tokenizer.rs:69  boolean = (?:(?P<boolean>#t|#f) delmer)
BooleanAlt(s, i) ==
    ThenDelmer("boolean", s, i,
               IF Ch(s, i) = "#" /\ Ch(s, i + 1) \in {"t", "f"}
               THEN <<i + 2>> ELSE <<>>)

\* tokenizer.rs:71  dot = (?:(?P<dot>\.) delmer)
DotAlt(s, i) ==
    ThenDelmer("dot", s, i, IF Ch(s, i) = "." THEN <<i + 1>> ELSE <<>>)

\* tokenizer.rs:73  mark = (?P<mark>')
MarkAlt(s, i) ==
    IF Ch(s, i) = "'" THEN <<Match("mark", i, i + 1, i + 1)>> ELSE <<>>

\* tokenizer.rs:76  clipped = (?P<clipped>(?:\.{2}|#)$)
ClippedAlt(s, i) ==
    LET ends == (IF Ch(s, i) = "." /\ Ch(s, i + 1) = "." THEN <<i + 2>>
                 ELSE <<>>)
                \o (IF Ch(s, i) = "#" THEN <<i + 1>> ELSE <<>>)
    IN Flatten([k \in 1..Len(ends) |->
                  IF ends[k] = Len(s)
                  THEN <<Match("clipped", i, ends[k], ends[k])>>
                  ELSE <<>>])

\* tokenizer.rs:79  (?P<whitespace>whitespace+) : greedy
RECURSIVE WhitespaceStar(_, _)
WhitespaceStar(s, i) ==
    LET w == Whitespace(s, i)
    IN Flatten([k \in 1..Len(w) |-> WhitespaceStar(s, w[k])]) \o <<i>>

\* (?P<whitespace>whitespace*) : a repetition that also matches nothing.
WhitespaceAltStar(s, i) ==
    LET ends == WhitespaceStar(s, i)
    IN [k \in 1..Len(ends) |-> Match("whitespace", i, ends[k], ends[k])]

WhitespaceAlt(s, i) ==
    LET w == Whitespace(s, i)
        ends == Flatten([k \in 1..Len(w) |-> WhitespaceStar(s, w[k])])
    IN [k \in 1..Len(ends) |-> Match("whitespace", i, ends[k], ends[k])]

\* tokenizer.rs:78-81  ^(?:number|symbol|good_string|block|(?P<whitespace>..)
\*                        |bad_eof_string|clipped|boolean|dot|mark)
Regex(s) ==
    NumberAlt(s, 0) \o SymbolAlt(s, 0) \o GoodString(s, 0) \o BlockAlt(s, 0)
        \o WhitespaceAlt(s, 0) \o BadEofString(s, 0) \o ClippedAlt(s, 0)
        \o BooleanAlt(s, 0) \o DotAlt(s, 0) \o MarkAlt(s, 0)

\* tokenizer.rs:138  REGEX.captures(&self.input): None, or the first match
Captures(s) == IF Regex(s) = <<>> THEN None ELSE Some(Head(Regex(s)))

\* Match::as_str
AsStr(s, m) == SubSeq(s, m.start + 1, m.end)

\* tokenizer.rs:36-44  enum Token
TokBlock(b) == [kind |-> "Block", block |-> b]
TString(str) == [kind |-> "TString", str |-> str]
TokSymbol(str) == [kind |-> "Symbol", str |-> str]
TokNumber(str) == [kind |-> "Number", str |-> str]
TokBool(b) == [kind |-> "Bool", bool |-> b]
TokDot == [kind |-> "Dot"]
TokMark(m) == [kind |-> "Mark", mark |-> m]

\* tokenizer.rs:91-95  enum InternalToken
PublicToken(token) == [itok |-> "PublicToken", token |-> token]
EndOfFile == [itok |-> "EndOfFile"]
WhitespaceToken == [itok |-> "Whitespace"]

\* A can_ignore that holds of no token.
CanIgnoreNothing(itok) == FALSE

\* tokenizer.rs:98-104  InternalToken::can_ignore
CanIgnore(itok) == itok.itok = "Whitespace"

\* tokenizer.rs:106-111  InternalToken::into_option
IntoOption(itok) ==
    IF itok.itok = "PublicToken" THEN Some(itok.token) ELSE None

\* unreachable!() and unwrap() of None: the thread panics
Panic == [panic |-> TRUE]

\* tokenizer.rs:113-115  InternalToken::into_public
IntoPublic(itok) ==
    IF IntoOption(itok).some THEN IntoOption(itok).value ELSE Panic

\* A scanner that always advances to the end of the whole match.
PublicOfWholeMatch(s, cap) ==
    LET str == AsStr(s, cap)
    IN [tok |-> CASE cap.group = "goodStringBody" -> TString(str)
                  [] cap.group = "block" ->
                         IF str = <<"(">> THEN TokBlock("Start")
                         ELSE TokBlock("End")
                  [] cap.group = "boolean" -> TokBool(str = <<"#", "t">>)
                  [] cap.group = "symbol" -> TokSymbol(str)
                  [] cap.group = "number" -> TokNumber(str)
                  [] cap.group = "dot" -> TokDot
                  [] cap.group = "mark" -> TokMark("Quote"),
        end_of_token |-> cap.whole]

\* tokenizer.rs:153-191  the token of a match that is neither whitespace nor
\* a failure, with the offset the scanner advances to
PublicOf(s, cap) ==
    LET whole == cap.whole
        str == AsStr(s, cap)
    IN CASE cap.group = "goodStringBody" ->
                [tok |-> TString(str), end_of_token |-> whole]
         [] cap.group = "block" ->
                [tok |-> IF str = <<"(">> THEN TokBlock("Start")
                         ELSE IF str = <<")">> THEN TokBlock("End")
                         ELSE Panic,
                 end_of_token |-> whole]
         [] cap.group = "boolean" ->
                [tok |-> IF str = <<"#", "t">> THEN TokBool(TRUE)
                         ELSE IF str = <<"#", "f">> THEN TokBool(FALSE)
                         ELSE Panic,
                 end_of_token |-> cap.end]
         [] cap.group = "symbol" ->
                [tok |-> TokSymbol(str), end_of_token |-> cap.end]
         [] cap.group = "number" ->
                [tok |-> TokNumber(str), end_of_token |-> cap.end]
         [] cap.group = "dot" -> [tok |-> TokDot, end_of_token |-> cap.end]
         [] cap.group = "mark" ->
                [tok |-> IF str = <<"'">> THEN TokMark("Quote") ELSE Panic,
                 end_of_token |-> whole]
         [] OTHER -> [tok |-> Panic, end_of_token |-> whole]

\* tokenizer.rs:133-197  Tokenizer::gen_token: the result and the input left
GenToken(inp) ==
    IF inp = <<>> THEN [res |-> Ok(EndOfFile), rest |-> inp]
    ELSE LET c == Captures(inp)
         IN IF ~c.some
            THEN [res |-> Err("UnknownToken"), rest |-> inp]
            ELSE IF c.value.group = "whitespace"
            THEN [res |-> Ok(WhitespaceToken),
                  rest |-> SubSeq(inp, c.value.whole + 1, Len(inp))]
            ELSE IF c.value.group \in {"badEofStringBody", "clipped"}
            THEN [res |-> Err("UnexpectedEndOfFile"), rest |-> inp]
            ELSE LET t == PublicOf(inp, c.value)
                 IN [res |-> Ok(PublicToken(t.tok)),
                     rest |-> SubSeq(inp, t.end_of_token + 1, Len(inp))]

TokIdle ==
    /\ text = <<>>
    /\ input = <<>>
    /\ tpc = "idle"
    /\ unchecked_token = Ok(EndOfFile)
    /\ yielded = <<>>

\* The characters the bounded texts are made of: one or two of each class
\* the grammar tells apart.
Alphabet ==
    {"t", "1", "+", ".", "(", ")", " ", "\n", ";", "\"", "\\", "#", "'"}

RECURSIVE TextsOfLen(_)
TextsOfLen(n) ==
    IF n = 0 THEN {<<>>}
    ELSE {Append(t, c) : t \in TextsOfLen(n - 1), c \in Alphabet}

\* Longer texts of the specification's examples.
Examples ==
    {<<"(", "i", "f", " ", "#", "t", " ", "1", " ", "2", ")">>,
     <<"\"", "a", "b", "c", "\"">>,
     <<"\"", "a", "b", "c">>,
     <<"+", "1", "2", "3">>,
     <<"-", "1", "2", "3">>,
     <<".", ".", ".", ")">>,
     <<"l", "e", "t", "*", ";", "x">>,
     <<"\"", "a", "\\", "\"", "b", "\"", " ">>,
     <<"-", " ", "-", "4", "5", "\"">>,
     <<"\"", "\\", "\n", "\"">>}

Texts == UNION {TextsOfLen(n) : n \in 0..MaxLen} \cup Examples

\* Calls of next that returned no token so far: the model stops calling
\* after MaxStalls of them.
Stalls ==
    Cardinality({k \in 1..Len(yielded) :
                   ~yielded[k].some \/ ~yielded[k].value.ok})

\* tokenizer.rs:129-131  Tokenizer::new
TokInit ==
    /\ text \in Texts
    /\ input = text
    /\ tpc = "idle"
    /\ unchecked_token = Ok(EndOfFile)
    /\ yielded = <<>>

\* tokenizer.rs:203-205  next is entered
CallNext ==
    /\ tpc = "idle"
    /\ Stalls < MaxStalls
    /\ tpc' = "loop"
    /\ UNCHANGED <<text, input, unchecked_token, yielded, symVars, astVars>>

\* tokenizer.rs:206-215  one turn of the loop, r being what gen_token
\* returns and leaves: loop again on whitespace or leave the loop
ScanTo(r) ==
    /\ tpc = "loop"
    /\ unchecked_token' = r.res
    /\ input' = r.rest
    /\ tpc' = IF r.res.ok /\ CanIgnore(r.res.value) THEN "loop" ELSE "ret"
    /\ UNCHANGED <<text, yielded, symVars, astVars>>

\* tokenizer.rs:206-215  one turn of the loop
ScanStep == ScanTo(GenToken(input))

\* tokenizer.rs:218-222  the item next returns
NextItem(unchecked) ==
    IF unchecked.ok /\ unchecked.value = EndOfFile THEN None
    ELSE Some(IF unchecked.ok THEN Ok(IntoPublic(unchecked.value))
              ELSE unchecked)

\* tokenizer.rs:218-223  next returns
ReturnItem ==
    /\ tpc = "ret"
    /\ yielded' = Append(yielded, NextItem(unchecked_token))
    /\ tpc' = "idle"
    /\ UNCHANGED <<text, input, unchecked_token, symVars, astVars>>

(***************************************************************************)
(* Specifications.                                                         *)
(***************************************************************************)
InitSym == SymInit /\ AstInit /\ TokIdle

NextSym ==
    \/ \E t \in Threads : GenTempFetch(t)
    \/ \E t \in Threads : GenTempReturn(t)
    \/ \E t \in Threads, name \in SymNames :
           CallSymbolNew(t, name)
    \/ \E t \in Threads, core \in CoreInputs :
           CallSymbolFromCore(t, core)

SpecSym == InitSym /\ [][NextSym]_vars

VecInputs == {<<>>, <<FromBool(TRUE), FromNumber(2)>>}

InitAst == SymInit /\ AstInit /\ TokIdle

NextAst ==
    \/ \E leaf \in LeafInputs : MakeLeaf(leaf)
    \/ \E leaf \in LeafInputs : PushLeaf(leaf)
    \/ Push
    \/ CallBuild
    \/ CallBuildWithTail
    \/ CallListNone
    \/ CallListOne
    \/ \E list \in VecInputs : CallListFrom(list)
    \/ CallIntoSymbol
    \/ CallIntoList
    \/ CallIntoProperList
    \/ CallToDatum

SpecAst == InitAst /\ [][NextAst]_vars

InitTok == SymInit /\ AstInit /\ TokInit

NextTok ==
    \/ CallNext
    \/ ScanStep
    \/ ReturnItem

SpecTok == InitTok /\ [][NextTok]_vars

\* The texts scanned under fairness: of the same lengths, over one character
\* of each class that takes part in skipping, in tokens and in failures.
LiveAlphabet == {"t", "1", ".", "#", " ", "\n", ";", "\""}

RECURSIVE LiveTextsOfLen(_)
LiveTextsOfLen(n) ==
    IF n = 0 THEN {<<>>}
    ELSE {Append(t, c) : t \in LiveTextsOfLen(n - 1), c \in LiveAlphabet}

LiveTexts == UNION {LiveTextsOfLen(n) : n \in 0..MaxLen} \cup Examples

\* Every input a scan of one of these texts can be left with, and what
\* gen_token does on each: the scanner's one step, worked out once.
Suffixes(s) == {SubSeq(s, k, Len(s)) : k \in 1..Len(s) + 1}
LiveInputs == UNION {Suffixes(t) : t \in LiveTexts}
Scanned == [inp \in LiveInputs |-> GenToken(inp)]

\* tokenizer.rs:129-131  Tokenizer::new
TokInitLive ==
    /\ text \in LiveTexts
    /\ input = text
    /\ tpc = "idle"
    /\ unchecked_token = Ok(EndOfFile)
    /\ yielded = <<>>

\* tokenizer.rs:206-215  one turn of the loop, gen_token read off the table
ScanStepLive == ScanTo(Scanned[input])

InitTokLive == SymInit /\ AstInit /\ TokInitLive

NextTokLive ==
    \/ CallNext
    \/ ScanStepLive
    \/ ReturnItem

\* The scanner with progress: a call of next that has started runs to its
\* return, and the caller goes on calling next (until MaxStalls calls have
\* returned no token).
FairTok ==
    WF_vars(CallNext) /\ WF_vars(ScanStepLive) /\ WF_vars(ReturnItem)

SpecTokLive == InitTokLive /\ [][NextTokLive]_vars /\ FairTok


(***************************************************************************)
(* Properties of the symbols, checked under SpecSym.                       *)
(***************************************************************************)
\* Every symbol handed out so far, as (thread, index) places.
SymPlaces == {p \in Threads \X (1..MaxSyms + 1) : p[2] <= Len(syms[p[1]])}
SymAt(p) == syms[p[1]][p[2]]

\* C1: gen_temp never hands out the same Generated symbol twice: any two
\* Temp symbols returned to any threads, at different places, carry different
\* counter values, and so does a value a thread has fetched and not yet
\* returned.
C1_GenTempDistinct ==
    /\ \A p \in SymPlaces, q \in SymPlaces :
          (p # q /\ SymAt(p).origin = "Temp" /\ SymAt(q).origin = "Temp")
              => SymAt(p).id # SymAt(q).id
    /\ \A t \in Threads, q \in SymPlaces :
          (pc[t] = "fetched" /\ SymAt(q).origin = "Temp")
              => count[t] # SymAt(q).id
    /\ \A t \in Threads, u \in Threads :
          (t # u /\ pc[t] = "fetched" /\ pc[u] = "fetched")
              => count[t] # count[u]

\* Two threads raced: one fetched first and has not returned yet while the
\* other, which fetched later, already holds its symbol and a second one.
C1_Witness ==
    \E t \in Threads, u \in Threads :
        /\ t # u
        /\ pc[t] = "fetched"
        /\ \E i \in 1..Len(syms[u]), j \in 1..Len(syms[u]) :
              /\ i < j
              /\ syms[u][i].origin = "Temp" /\ syms[u][j].origin = "Temp"
              /\ count[t] < syms[u][i].id

\* C7: symbol equality is by (origin, payload): symbols of different origins
\* are never equal, whatever their printed names, and two Generated symbols
\* are equal exactly when their counter values are.
C7_EqualityByOrigin ==
    \A p \in SymPlaces, q \in SymPlaces :
        LET a == SymAt(p)
            b == SymAt(q)
        IN /\ a.origin # b.origin => ~SymEq(a, b)
           /\ (a.origin = "Temp" /\ b.origin = "Temp")
                 => (SymEq(a, b) <=> a.id = b.id)

\* gen_temp() with id 0 next to AstSymbol::new("$temp$id0"), and
\* AstSymbol::new("if") next to CoreSymbol::If: equal names, unequal symbols.
C7_Witness ==
    /\ \E p \in SymPlaces, q \in SymPlaces :
          /\ SymAt(p).origin = "Temp" /\ SymAt(p).id = 0
          /\ SymAt(q).origin = "Defined"
          /\ SymGetName(SymAt(p)) = SymGetName(SymAt(q))
          /\ ~SymEq(SymAt(p), SymAt(q))
    /\ \E p \in SymPlaces, q \in SymPlaces :
          /\ SymAt(p).origin = "Core"
          /\ SymAt(q).origin = "Defined"
          /\ SymGetName(SymAt(p)) = SymGetName(SymAt(q))
          /\ ~SymEq(SymAt(p), SymAt(q))

(***************************************************************************)
(* Properties of the syntax tree, checked under SpecAst.                   *)
(***************************************************************************)
LeafKinds == {"Number", "Symbol", "String", "Bool"}

ArgIsList == result.arg.inner = "List"
ArgIsImproper == ArgIsList /\ result.arg.list.list_type.kind = "Improper"

\* C2: build_with_tail fails exactly when nothing was pushed and the tail
\* node is an improper list.
C2_FailsExactlyWhen ==
    result.op = "build_with_tail"
        => (~result.ret.some <=> (Len(result.builder) = 0 /\ ArgIsImproper))

\* The rejected case, and the accepted case nearest to it (the same tail
\* after a push), are both told apart by the builder alone.
C2_Witness ==
    /\ result.op = "build_with_tail"
    /\ Len(result.builder) = 0
    /\ ArgIsImproper
    /\ Len(result.arg.list.nodes) > 0
    /\ ~result.ret.some

\* C3: a rejected tail comes back to the caller: the failure carries the
\* node, or the caller still holds it.
C3_RejectedTailReturned ==
    (result.op = "build_with_tail" /\ ~result.ret.some)
        => \/ held = result.arg
           \/ \E f \in DOMAIN result.ret \ {"some"} : result.ret[f] = result.arg

\* C4: a successful build_with_tail(t) after pushes n1..nk is the list
\* n1..nk,c1..cm with t's tag when t is a list c1..cm, and the improper list
\* n1..nk with tail t when t is a leaf; with a proper t it is what pushing
\* n1..nk,c1..cm and build() gives.
C4_SpliceOrder ==
    (result.op = "build_with_tail" /\ result.ret.some)
        => LET got == result.ret.value
               ns == result.builder
           IN IF ArgIsList
              THEN LET cs == result.arg.list.nodes
                       tag == result.arg.list.list_type
                   IN /\ Len(got.nodes) = Len(ns) + Len(cs)
                      /\ \A i \in 1..Len(ns) : got.nodes[i] = ns[i]
                      /\ \A j \in 1..Len(cs) : got.nodes[Len(ns) + j] = cs[j]
                      /\ got.list_type = tag
                      /\ tag.kind = "Proper" => got = Build(ns \o cs)
              ELSE /\ got.nodes = ns
                   /\ got.list_type.kind = "Improper"
                   /\ got.list_type.tail = result.arg.non_list

\* Two nodes pushed, then build_with_tail of a proper list of two others.
C4_Witness ==
    /\ result.op = "build_with_tail"
    /\ result.ret.some
    /\ Len(result.builder) = 2
    /\ ArgIsList
    /\ result.arg.list.list_type.kind = "Proper"
    /\ Len(result.arg.list.nodes) = 2
    /\ result.arg.list.nodes[1] # result.builder[1]
    /\ result.builder[1] # result.builder[2]

IsDowncast == result.op \in {"into_symbol", "into_list", "into_proper_list"}

\* C6: a consuming downcast returns the expected shape, or returns as its
\* error payload a node equal to the one it was given.
C6_DowncastKeepsNode ==
    IsDowncast
        => IF result.ret.ok
           THEN CASE result.op = "into_symbol" ->
                       /\ result.arg.inner = "NonList"
                       /\ result.arg.non_list.kind = "Symbol"
                       /\ result.ret.value = result.arg.non_list.symbol
                  [] result.op = "into_list" ->
                       /\ ArgIsList
                       /\ result.ret.value = result.arg.list
                  [] result.op = "into_proper_list" ->
                       /\ ArgIsList
                       /\ result.arg.list.list_type.kind = "Proper"
                       /\ result.ret.value = result.arg.list.nodes
           ELSE result.ret.error = result.arg

\* into_proper_list rejected an improper list that has children.
C6_Witness ==
    /\ result.op = "into_proper_list"
    /\ ~result.ret.ok
    /\ ArgIsImproper
    /\ Len(result.arg.list.nodes) > 0
    /\ held = result.arg

IsLeafValue(x) == "kind" \in DOMAIN x /\ x.kind \in LeafKinds

RECURSIVE TailsAreLeaves(_)
TailsAreLeaves(node) ==
    IF node.inner # "List" THEN TRUE
    ELSE /\ node.list.list_type.kind = "Improper"
               => IsLeafValue(node.list.list_type.tail)
         /\ \A i \in 1..Len(node.list.nodes) :
               TailsAreLeaves(node.list.nodes[i])

\* C8: in every list the parser holds or has pushed, at any depth, the tail
\* of an improper list is a leaf and never a list.
C8_TailIsLeaf ==
    /\ TailsAreLeaves(held)
    /\ \A i \in 1..Len(nodes) : TailsAreLeaves(nodes[i])

\* An improper list was given as the tail of a non-empty builder, and the
\* list that came back is improper with the same leaf tail.
C8_Witness ==
    /\ result.op = "build_with_tail"
    /\ ArgIsImproper
    /\ result.ret.some
    /\ held = FromList(result.ret.value)
    /\ held.list.list_type = result.arg.list.list_type
    /\ \E i \in 1..Len(held.list.nodes) : held.list.nodes[i].inner = "List"


(***************************************************************************)
(* Properties of the scanner, checked under SpecTok.                       *)
(***************************************************************************)
IsFailure(item) == item.some /\ ~item.value.ok

\* C5: once next has yielded a failure, every later call of next yields
\* nothing: no token and no second failure.
C5_FailureYieldedOnce ==
    \A k \in 1..Len(yielded), j \in 1..Len(yielded) :
        (k < j /\ IsFailure(yielded[k])) => ~yielded[j].some

\* A scan step has just failed.
StepFailed == tpc = "ret" /\ ~unchecked_token.ok

\* Whether an unescaped double quote follows offset i of s.
RECURSIVE ClosingQuoteAfter(_, _)
ClosingQuoteAfter(s, i) ==
    IF i >= Len(s) THEN FALSE
    ELSE IF s[i + 1] = "\\" THEN ClosingQuoteAfter(s, i + 2)
    ELSE IF s[i + 1] = "\"" THEN TRUE
    ELSE ClosingQuoteAfter(s, i + 1)

\* An opening double quote with no closing quote before the end of input.
Unterminated(s) == s # <<>> /\ s[1] = "\"" /\ ~ClosingQuoteAfter(s, 1)

IsClipped(s) == s = <<".", ".">> \/ s = <<"#">>

\* C9 as stated: a failing scan step reports UnexpectedEndOfFile exactly
\* when the remaining input is an unterminated string, or `..`, or `#`.
C9_EofIffUnterminated ==
    StepFailed
        => (unchecked_token.error = "UnexpectedEndOfFile"
               <=> (Unterminated(input) \/ IsClipped(input)))

\* C9 as amended: a failing scan step reports UnexpectedEndOfFile exactly
\* when the remaining input is an unterminated string with no newline after
\* its opening quote, or `..`, or `#`; any other failure is UnknownToken.
C9_EofIffUnterminatedOnOneLine ==
    StepFailed
        => /\ unchecked_token.error = "UnexpectedEndOfFile"
               <=> \/ /\ Unterminated(input)
                      /\ \A k \in 1..Len(input) : input[k] # "\n"
                   \/ IsClipped(input)
           /\ unchecked_token.error \in {"UnexpectedEndOfFile", "UnknownToken"}

\* After an earlier token, the scan failed on an unterminated string that
\* ends in a lone backslash.
C9_Witness ==
    /\ StepFailed
    /\ unchecked_token.error = "UnexpectedEndOfFile"
    /\ Len(yielded) > 0
    /\ yielded[1].some /\ yielded[1].value.ok
    /\ Len(input) > 1
    /\ input[1] = "\""
    /\ input[Len(input)] = "\\"

IsSymbolText(t) ==
    \/ t \in {<<"+">>, <<"-">>, <<".", ".", ".">>}
    \/ /\ Len(t) >= 1
       /\ t[1] \in Initial
       /\ \A k \in 2..Len(t) : t[k] \in Subsequent

\* The first k characters of s are followed by `(`, `)`, whitespace, `;` or
\* the end of input.
DelimitedAt(s, k) == k = Len(s) \/ s[k + 1] \in {"(", ")", ";"} \cup Space

\* C10: a scan step on symbol-shaped text followed by `(`, `)`, whitespace,
\* `;` or end of input yields one Symbol token spelling the whole symbol
\* text, and leaves the delimiter in the input.
C10_SymbolUpToDelimiter ==
    [][\A k \in 1..Len(input) :
          (tpc = "loop" /\ IsSymbolText(SubSeq(input, 1, k))
                        /\ DelimitedAt(input, k))
              => /\ unchecked_token'.ok
                 /\ unchecked_token'.value.itok = "PublicToken"
                 /\ unchecked_token'.value.token.kind = "Symbol"
                 /\ unchecked_token'.value.token.str = SubSeq(input, 1, k)
                 /\ input' = SubSeq(input, k + 1, Len(input))
                 /\ tpc' = "ret"]_vars

\* A Symbol of several characters was scanned, not at the start of the
\* text, and its delimiter is still the next character of the input.
C10_Witness ==
    /\ tpc = "ret"
    /\ unchecked_token.ok
    /\ unchecked_token.value.itok = "PublicToken"
    /\ unchecked_token.value.token.kind = "Symbol"
    /\ Len(unchecked_token.value.token.str) > 1
    /\ IsSymbolText(unchecked_token.value.token.str)
    /\ Len(yielded) > 0
    /\ input # <<>>
    /\ input[1] \in {"(", ")", ";"} \cup Space

\* The characters that end a number, a symbol, a boolean or a dot.
DelimChars == {"(", ")", "\"", ";"} \cup Space

\* The spelling of a token that a delimiter must follow.
TokenText(tok) ==
    CASE tok.kind \in {"Number", "Symbol"} -> tok.str
      [] tok.kind = "Bool" -> IF tok.bool THEN <<"#", "t">> ELSE <<"#", "f">>
      [] tok.kind = "Dot" -> <<".">>

IfExample == <<"(", "i", "f", " ", "#", "t", " ", "1", " ", "2", ")">>

IfTokens ==
    <<TokBlock("Start"), TokSymbol(<<"i", "f">>), TokBool(TRUE),
      TokNumber(<<"1">>), TokNumber(<<"2">>), TokBlock("End")>>

\* A scan step that returns a Number, Symbol, Boolean or Dot token removes
\* exactly the token's text from the front of the input, and what is left is
\* empty or starts with the delimiter.
DelimiterLeft ==
    (/\ tpc = "loop"
     /\ unchecked_token'.ok
     /\ unchecked_token'.value.itok = "PublicToken"
     /\ "kind" \in DOMAIN unchecked_token'.value.token
     /\ unchecked_token'.value.token.kind \in {"Number", "Symbol", "Bool", "Dot"})
        => /\ input = TokenText(unchecked_token'.value.token) \o input'
           /\ input' = <<>> \/ input'[1] \in DelimChars

\* Every item yielded for `(if #t 1 2)` is the next of its six tokens, and
\* after the six every item is the end of the iteration.
IfExampleInOrder ==
    text = IfExample
        => \A k \in 1..Len(yielded) :
              yielded[k] = IF k <= Len(IfTokens) THEN Some(Ok(IfTokens[k]))
                           ELSE None

\* C11: after a Number, Symbol, Boolean or Dot token the position is at the
\* end of the token text and the delimiter is still in the input, to be
\* scanned by the following step; scanning `(if #t 1 2)` yields Block-start,
\* Symbol "if", Boolean true, Number "1", Number "2", Block-end, in this
\* order, and then ends.
C11_DelimiterNotConsumed == [][DelimiterLeft]_vars /\ []IfExampleInOrder

\* `(if #t 1 2)` was scanned to its end: six tokens and the end of the
\* iteration were yielded.
C11_Witness ==
    /\ text = IfExample
    /\ Len(yielded) = Len(IfTokens) + 1
    /\ ~yielded[Len(yielded)].some

IsNumberText(t) ==
    /\ Len(t) >= 1
    /\ LET digits == IF t[1] \in {"+", "-"} THEN Tail(t) ELSE t
       IN /\ Len(digits) >= 1
          /\ \A k \in 1..Len(digits) : digits[k] \in Digit

\* The first k characters of s are followed by a delimiter or by the end of
\* input.
EndsAt(s, k) == k = Len(s) \/ s[k + 1] \in DelimChars

\* C12: a scan step on an optional sign and one or more digits followed by
\* a delimiter or the end of input yields one Number token spelling the sign
\* and the digits; on a sign alone followed by a delimiter or the end of
\* input it yields a Symbol token. Either way the delimiter stays.
C12_SignedNumber ==
    [][\A k \in 1..Len(input) :
          LET t == SubSeq(input, 1, k)
          IN (tpc = "loop" /\ EndsAt(input, k))
                => /\ IsNumberText(t)
                      => /\ unchecked_token' = Ok(PublicToken(TokNumber(t)))
                         /\ input' = SubSeq(input, k + 1, Len(input))
                   /\ t \in {<<"+">>, <<"-">>}
                      => /\ unchecked_token' = Ok(PublicToken(TokSymbol(t)))
                         /\ input' = SubSeq(input, k + 1, Len(input))]_vars

\* The text `- -45"` : the lone sign was yielded as a Symbol, and the signed
\* digits before the double quote were scanned as one Number.
C12_Witness ==
    /\ Len(yielded) = 1
    /\ yielded[1] = Some(Ok(TokSymbol(<<"-">>)))
    /\ tpc = "ret"
    /\ unchecked_token = Ok(PublicToken(TokNumber(<<"-", "4", "5">>)))
    /\ input = <<"\"">>

\* A run of characters other than double quote, backslash and newline, and
\* of pairs of a backslash and one character out of `after`.
RECURSIVE IsBody(_, _)
IsBody(b, after) ==
    \/ b = <<>>
    \/ /\ b # <<>>
       /\ b[1] \notin {"\"", "\\", "\n"}
       /\ IsBody(Tail(b), after)
    \/ /\ Len(b) >= 2
       /\ b[1] = "\\"
       /\ b[2] \in after
       /\ IsBody(Tail(Tail(b)), after)

\* A scan step on a double quote, a body with escape pairs over `after`, and
\* a closing double quote yields one String token of the text between the
\* quotes, unchanged, and advances past the closing quote.
ScansAsString(after) ==
    \A k \in 2..Len(input) :
        (/\ tpc = "loop"
         /\ input[1] = "\""
         /\ input[k] = "\""
         /\ IsBody(SubSeq(input, 2, k - 1), after))
            => /\ unchecked_token'
                     = Ok(PublicToken(TString(SubSeq(input, 2, k - 1))))
               /\ input' = SubSeq(input, k + 1, Len(input))
               /\ tpc' = "ret"

\* C13 as stated: the escape pairs are a backslash followed by any single
\* character.
C13_StringWithAnyEscape == [][ScansAsString(AllChars)]_vars

\* C13 as amended: the escape pairs are a backslash followed by any single
\* character other than a newline; a body that runs into a backslash followed
\* by a newline makes the step fail with UnknownToken.
C13_StringWithOneLineEscape ==
    [][/\ ScansAsString(AllChars \ {"\n"})
       /\ \A k \in 1..Len(input) :
             (/\ tpc = "loop"
              /\ input[1] = "\""
              /\ k + 2 <= Len(input)
              /\ IsBody(SubSeq(input, 2, k), AllChars \ {"\n"})
              /\ input[k + 1] = "\\"
              /\ input[k + 2] = "\n")
                 => /\ unchecked_token' = Err("UnknownToken")
                    /\ input' = input]_vars

\* The text `"a\"b" ` : the string with an escaped double quote in it was
\* scanned as one String token that keeps the backslash, and the space after
\* the closing quote is what is left.
C13_Witness ==
    /\ tpc = "ret"
    /\ unchecked_token = Ok(PublicToken(TString(<<"a", "\\", "\"", "b">>)))
    /\ input = <<" ">>

\* Texts made only of whitespace characters and of comments, each running
\* from a semicolon to the end of its line or of the text.
RECURSIVE IsBlank(_, _)
IsBlank(t, in_comment) ==
    \/ t = <<>>
    \/ /\ t # <<>>
       /\ IF in_comment THEN IsBlank(Tail(t), t[1] # "\n")
          ELSE /\ t[1] \in Space \cup {";"}
               /\ IsBlank(Tail(t), t[1] = ";")

\* C14: on a text made only of whitespace and comments next yields no token
\* and no failure: the scan ends at the end of input and every call returns
\* the end of the iteration.
C14_BlankYieldsNothing ==
    IsBlank(text, FALSE)
        => /\ \A k \in 1..Len(yielded) : ~yielded[k].some
           /\ tpc = "ret" => (unchecked_token = Ok(EndOfFile) /\ input = <<>>)

\* A text with a comment that has something in it and whitespace around was
\* scanned, and the first call of next returned the end of the iteration.
C14_Witness ==
    /\ IsBlank(text, FALSE)
    /\ \E k \in 1..Len(text) : text[k] \in Space
    /\ \E k \in 1..Len(text) : text[k] \notin Space \cup {";"}
    /\ Len(yielded) = 1
    /\ ~yielded[1].some

(***************************************************************************)
(* Properties of the reification, checked under SpecAst.                   *)
(***************************************************************************)
\* cons(d_k, cons(d_k+1, ... cons(d_n, T))) for the children k..n of a list,
\* d_i being to_datum of the i-th child and T the empty list for a proper
\* list, to_datum of the tail leaf for an improper one.
RECURSIVE PairChain(_, _)
PairChain(list, k) ==
    IF k > Len(list.nodes)
    THEN IF list.list_type.kind = "Proper" THEN EmptyList
         ELSE ToDatum(NonList(list.list_type.tail))
    ELSE Cons(ToDatum(list.nodes[k]), PairChain(list, k + 1))

\* C15: to_datum of a list with children c1..cn is the pair chain
\* cons(d1, cons(d2, ... cons(dn, T))) with di the datum of ci, in the
\* children's order, and T the empty-list sentinel for a proper list, the
\* datum of the tail leaf for an improper one; the node is left as it was.
C15_ToDatumPairChain ==
    result.op = "to_datum"
        => /\ ArgIsList => result.ret = PairChain(result.arg.list, 1)
           /\ held = result.arg

\* to_datum was applied to an improper list of two or more different
\* children, one of them a list.
C15_Witness ==
    /\ result.op = "to_datum"
    /\ ArgIsImproper
    /\ Len(result.arg.list.nodes) >= 2
    /\ result.arg.list.nodes[1] # result.arg.list.nodes[2]
    /\ \E i \in 1..Len(result.arg.list.nodes) :
          result.arg.list.nodes[i].inner = "List"
    /\ result.ret.object = "pair"
    /\ result.ret.cdr.object = "pair"

\* A scan step that returns a token or a whitespace skip leaves strictly
\* less input than it found.
StepShortens ==
    (/\ tpc = "loop"
     /\ unchecked_token'.ok
     /\ unchecked_token'.value.itok \in {"PublicToken", "Whitespace"})
        => Len(input') < Len(input)

\* The input left is the end of the original text.
InputIsSuffix ==
    /\ Len(input) <= Len(text)
    /\ input = SubSeq(text, Len(text) - Len(input) + 1, Len(text))

\* Some call of next has returned the end of the iteration or a failure.
Ended == \E k \in 1..Len(yielded) : ~yielded[k].some \/ ~yielded[k].value.ok

\* C16: every scan step that returns a token or a whitespace skip strictly
\* shortens the input left, which is always a suffix of the original text;
\* so the skip loop of next always leaves the loop, and the iteration
\* reaches the end of input or a failure.
C16_ScanTerminates ==
    /\ [][StepShortens]_vars
    /\ []InputIsSuffix
    /\ (tpc = "loop") ~> (tpc = "ret")
    /\ <>Ended

\* The iteration ended after tokens were yielded, and on the way a call of
\* next went round its loop for whitespace between two tokens.
C16_Witness ==
    /\ Len(yielded) >= 3
    /\ yielded[1].some /\ yielded[1].value.ok
    /\ yielded[2].some /\ yielded[2].value.ok
    /\ ~yielded[Len(yielded)].some
    /\ input = <<>>
    /\ \E k \in 1..Len(text) : text[k] \in Space

\* C17: the scanner never panics: no scan step runs into an unreachable!()
\* arm, so every token gen_token returns is a token of the grammar, and
\* next never applies into_public to Whitespace or EndOfFile, so every token
\* it yields is one too.
C17_NoPanic ==
    /\ (unchecked_token.ok /\ unchecked_token.value.itok = "PublicToken")
          => unchecked_token.value.token # Panic
    /\ (tpc = "ret" /\ unchecked_token.ok)
          => unchecked_token.value.itok \in {"PublicToken", "EndOfFile"}
    /\ \A k \in 1..Len(yielded) :
          (yielded[k].some /\ yielded[k].value.ok)
              => /\ yielded[k].value.value # Panic
                 /\ "kind" \in DOMAIN yielded[k].value.value

\* A quote mark was yielded after whitespace had been skipped, and the step
\* after it returned a block token: the mark and the block arms both ran
\* without reaching unreachable!().
C17_Witness ==
    /\ text # <<>>
    /\ text[1] \in Space
    /\ Len(yielded) = 1
    /\ yielded[1] = Some(Ok(TokMark("Quote")))
    /\ tpc = "ret"
    /\ unchecked_token = Ok(PublicToken(TokBlock("End")))

=============================================================================
